---- MODULE Spec2Model ----
(***************************************************************************)
(* A model of the subscription diagnostic setting resource of the azurerm  *)
(* provider (monitor_subscription_diagnostic_setting_resource.go) and of   *)
(* the generated watchlists client (watchlists.go).                        *)
(*                                                                         *)
(* Strings that the code splits or formats (resource IDs, names,           *)
(* subscription ids) are sequences of one-character strings; opaque        *)
(* strings (destination ids, categories) are TLA+ strings.  A Go pointer   *)
(* is a set: {} is nil and {v} points to v.                                *)
(***************************************************************************)
EXTENDS Integers, Sequences, FiniteSets, TLC

VARIABLES
    remote,     \* the diagnostic settings service: key -> pointer to record
    d,          \* the ResourceData the handlers work on
    cfg,        \* the configuration of the last Create/Update call
    last,       \* what the last handler invocation did
    fresh,      \* a Create succeeded and only Reads have run since
    wait,       \* the state of Delete's WaitForStateContext
    wl,         \* the state of one watchlists client operation
    pure        \* the input and the result of one call of a pure function

vars == <<remote, d, cfg, last, fresh, wait, wl, pure>>

----------------------------------------------------------------------------
(* Pointers and strings *)

Nil == {}

Ptr(v) == {v}

Deref(p) == CHOOSE v \in p : TRUE

EmptyStr == <<>>

Pipe == "|"

\* utils.String(s) of a TLA+ string
EmptyString == ""

----------------------------------------------------------------------------
(* Bounds and input domains *)

Subs == {<<"s">>}

Names == {<<"n">>}

Keys == [SubscriptionId : Subs, Name : Names]

Categories == {"", "Security"}

CategoryGroups == {"", "allLogs"}

\* one element of the schema's "log" set: category and category_group are
\* Optional strings, enabled an Optional bool
LogBlocks == [category : Categories, category_group : CategoryGroups, enabled : BOOLEAN]

\* the log blocks the lifecycle runs draw from: a category, a category with a
\* category group, a category group, and a disabled category
LifecycleLogBlocks ==
    {b \in LogBlocks : \/ b.enabled /\ (b.category /= "" \/ b.category_group /= "")
                       \/ ~b.enabled /\ b.category /= "" /\ b.category_group = ""}

EventHubRuleIds == {"", "rule"}

EventHubNames == {"", "hub"}

WorkspaceIds == {"", "ws"}

StorageAccountIds == {"", "sa"}

\* The configurations of the lifecycle runs.  The schema accepts every
\* combination (name and target_subscription_id are Required, everything
\* else Optional, with no ConflictsWith or ExactlyOneOf); the runs draw from
\* two families of it: every set of log blocks with one destination, and
\* every combination of destinations with one log block.
LogConfigs ==
    [name : Names, target_subscription_id : Subs,
     eventhub_name : {""}, eventhub_authorization_rule_id : {""},
     log_analytics_workspace_id : {"ws"}, storage_account_id : {""},
     log : SUBSET LifecycleLogBlocks]

DestinationConfigs ==
    [name : Names, target_subscription_id : Subs,
     eventhub_name : EventHubNames,
     eventhub_authorization_rule_id : EventHubRuleIds,
     log_analytics_workspace_id : WorkspaceIds,
     storage_account_id : StorageAccountIds,
     log : {{[category |-> "Security", category_group |-> "", enabled |-> TRUE]}}]

----------------------------------------------------------------------------
(* Resource IDs: fmt.Sprintf("%s|%s", ...) and strings.Split(id, "|") *)

\* the two arguments of the Sprintf in the other order
FormatId_Swapped(subscriptionID, name) == name \o <<Pipe>> \o subscriptionID

\* fmt.Sprintf("%s|%s", subscriptionID, name)
FormatId(subscriptionID, name) == subscriptionID \o <<Pipe>> \o name

\* strings.Split(s, "|"): the segments between the separators, at least one
RECURSIVE SplitFrom(_, _, _)
SplitFrom(s, i, cur) ==
    IF i > Len(s) THEN <<cur>>
    ELSE IF s[i] = Pipe THEN <<cur>> \o SplitFrom(s, i + 1, <<>>)
    ELSE SplitFrom(s, i + 1, Append(cur, s[i]))

Split(s) == SplitFrom(s, 1, <<>>)

\* a parser that returns the two segments the other way round
ParseMonitorSubscriptionDiagnosticId_Swapped(monitorId) ==
    LET v == Split(monitorId)
    IN  IF Len(v) /= 2
        THEN [ok |-> FALSE, id |-> Nil]
        ELSE [ok |-> TRUE, id |-> Ptr([SubscriptionId |-> v[2], Name |-> v[1]])]

\* a parser that accepts every input of at least 2 segments
ParseMonitorSubscriptionDiagnosticId_AtLeastTwo(monitorId) ==
    LET v == Split(monitorId)
    IN  IF Len(v) < 2
        THEN [ok |-> FALSE, id |-> Nil]
        ELSE [ok |-> TRUE, id |-> Ptr([SubscriptionId |-> v[1], Name |-> v[2]])]

\* ParseMonitorSubscriptionDiagnosticId: [ok, id]
ParseMonitorSubscriptionDiagnosticId(monitorId) ==
    LET v == Split(monitorId)
    IN  IF Len(v) /= 2
        THEN [ok |-> FALSE, id |-> Nil]
        ELSE [ok |-> TRUE, id |-> Ptr([SubscriptionId |-> v[1], Name |-> v[2]])]

\* subscriptiondiagnosticsettings.NewDiagnosticSettingID(subscriptionID, name)
NewDiagnosticSettingID(subscriptionID, name) ==
    [SubscriptionId |-> subscriptionID, Name |-> name]

----------------------------------------------------------------------------
(* The "log" set, expand and flatten *)

\* resourceMonitorSubscriptionDiagnosticLogSettingHash orders the elements of
\* the set: Set.List() returns them sorted by hash code.  The hash is a
\* function of (category, category_group, enabled); this rank stands for it.
LogSettingRank(b) ==
    (IF b.category = "" THEN 0 ELSE 4)
    + (IF b.category_group = "" THEN 0 ELSE 2)
    + (IF b.enabled THEN 1 ELSE 0)

\* (*pluginsdk.Set).List()
RECURSIVE SetList(_)
SetList(S) ==
    IF S = {} THEN <<>>
    ELSE LET b == CHOOSE x \in S : \A y \in S : LogSettingRank(x) <= LogSettingRank(y)
         IN  <<b>> \o SetList(S \ {b})

\* an iteration that sets Category and CategoryGroup whenever it can
ExpandLog_KeepsBoth(v) ==
    [Category |-> IF v.category /= "" THEN Ptr(v.category) ELSE Nil,
     CategoryGroup |-> IF v.category = "" \/ v.category_group /= ""
                       THEN Ptr(v.category_group) ELSE Nil,
     Enabled |-> v.enabled]

\* one iteration of the loop of expandSubscriptionMonitorDiagnosticsSettingsLogs
ExpandLog(v) ==
    IF v.category /= ""
    THEN [Category |-> Ptr(v.category), CategoryGroup |-> Nil, Enabled |-> v.enabled]
    ELSE [Category |-> Nil, CategoryGroup |-> Ptr(v.category_group), Enabled |-> v.enabled]

expandSubscriptionMonitorDiagnosticsSettingsLogs(input) ==
    [i \in 1..Len(input) |-> ExpandLog(input[i])]

\* an iteration that writes both keys, "" for a nil pointer
FlattenLog_BothKeys(v) ==
    [k \in {"category", "category_group", "enabled"} |->
        IF k = "category" THEN (IF v.Category = Nil THEN "" ELSE Deref(v.Category))
        ELSE IF k = "category_group"
        THEN (IF v.CategoryGroup = Nil THEN "" ELSE Deref(v.CategoryGroup))
        ELSE v.Enabled]

\* one iteration of the loop of flattenMonitorSubscriptionDiagnosticLogs: a map
\* that holds "category" and "category_group" only when the pointer is set
FlattenLog(v) ==
    LET keys == (IF v.Category /= Nil THEN {"category"} ELSE {})
                \cup (IF v.CategoryGroup /= Nil THEN {"category_group"} ELSE {})
                \cup {"enabled"}
    IN  [k \in keys |->
            IF k = "category" THEN Deref(v.Category)
            ELSE IF k = "category_group" THEN Deref(v.CategoryGroup)
            ELSE v.Enabled]

\* input is a pointer to a slice
flattenMonitorSubscriptionDiagnosticLogs(input) ==
    IF input = Nil THEN <<>>
    ELSE LET in == Deref(input) IN [i \in 1..Len(in) |-> FlattenLog(in[i])]

\* d.Set("log", list): each map becomes one element of the set, a key the map
\* lacks reads back as the zero value, and elements of equal hash collapse
SetLog(list) ==
    {[category |-> IF "category" \in DOMAIN list[i] THEN list[i].category ELSE "",
      category_group |-> IF "category_group" \in DOMAIN list[i]
                         THEN list[i].category_group ELSE "",
      enabled |-> list[i].enabled] : i \in 1..Len(list)}

----------------------------------------------------------------------------
(* The diagnostic settings service, as the handlers see it through          *)
(* SubscriptionDiagnosticSettingsClient.  remote[id] is Nil or points to    *)
(* the stored record.  Every call has a fault the environment picks:        *)
(*   "none"    the service answers from its store                           *)
(*   "error"   the call fails with an error that is not a 404               *)
(*   "nomodel" a Get answers 200 with no model                              *)
(*   "noid"    a Get answers 200 with a model that carries no Id            *)

GetFaults == {"none", "error", "nomodel", "noid"}

CallFaults == {"none", "error"}

\* The faults of the calls of one Create/Update, in call order: the existence
\* check, CreateOrUpdate, the read-back Get, the Get of the closing Read.  A
\* call that makes the handler return leaves no later call to fail.
FaultPlans ==
    {p \in [f1 : GetFaults, fcu : CallFaults, f2 : GetFaults, f3 : GetFaults] :
        /\ p.f1 = "error" => p.fcu = "none"
        /\ (p.f1 = "error" \/ p.fcu = "error") => p.f2 = "none"
        /\ (p.f1 = "error" \/ p.fcu = "error" \/ p.f2 \in {"error", "nomodel"}) => p.f3 = "none"}

\* an Update makes no existence check
UpdateFaultPlans == {p \in FaultPlans : p.f1 = "none"}

\* the Id the service gives the record it stores under id
ArmId(id) == id.SubscriptionId \o <<"/">> \o id.Name

Stored(store, id) == IF id \in DOMAIN store THEN store[id] ELSE Nil

\* client.Get(ctx, id): [err, notFound, Model]
ClientGet(store, id, fault) ==
    IF fault = "error"
    THEN [err |-> TRUE, notFound |-> FALSE, Model |-> Nil]
    ELSE IF Stored(store, id) = Nil
    THEN [err |-> TRUE, notFound |-> TRUE, Model |-> Nil]
    ELSE IF fault = "nomodel"
    THEN [err |-> FALSE, notFound |-> FALSE, Model |-> Nil]
    ELSE IF fault = "noid"
    THEN [err |-> FALSE, notFound |-> FALSE,
          Model |-> Ptr([Deref(Stored(store, id)) EXCEPT !.Id = Nil])]
    ELSE [err |-> FALSE, notFound |-> FALSE, Model |-> Stored(store, id)]

\* what an answer of client.Get holds
GetSeen(res) ==
    IF res.err THEN (IF res.notFound THEN "absent" ELSE "failed")
    ELSE IF res.Model = Nil THEN "nomodel"
    ELSE IF Deref(res.Model).Id = Nil THEN "noid"
    ELSE "found"

\* client.CreateOrUpdate(ctx, id, parameters): [err, store]
ClientCreateOrUpdate(store, id, parameters, fault) ==
    IF fault = "error" \/ id \notin DOMAIN store
    THEN [err |-> TRUE, store |-> store]
    ELSE [err |-> FALSE,
          store |-> [store EXCEPT ![id] = Ptr([parameters EXCEPT !.Id = Ptr(ArmId(id))])]]

\* client.Delete(ctx, id): [err, notFound, store]
ClientDelete(store, id, fault) ==
    IF fault = "error"
    THEN [err |-> TRUE, notFound |-> FALSE, store |-> store]
    ELSE IF Stored(store, id) = Nil
    THEN [err |-> TRUE, notFound |-> TRUE, store |-> store]
    ELSE [err |-> FALSE, notFound |-> FALSE, store |-> [store EXCEPT ![id] = Nil]]

----------------------------------------------------------------------------
(* The parsers of the destination ids that Read calls.  A well-formed id    *)
(* renders back (ID()) in its canonical casing; "RULE", "WS" and "SA" are   *)
(* the ids "rule", "ws" and "sa" in another casing, "bad" is malformed.     *)

CanonicalId(x) ==
    CASE x = "RULE" -> "rule"
      [] x = "WS" -> "ws"
      [] x = "SA" -> "sa"
      [] OTHER -> x

\* authRuleParse.ParseAuthorizationRuleIDInsensitively(x), then ID()
ParseAuthorizationRuleIDInsensitively(x) ==
    IF x = "bad" THEN [ok |-> FALSE, ID |-> ""] ELSE [ok |-> TRUE, ID |-> CanonicalId(x)]

\* workspaces.ParseWorkspaceID(x), then ID(): case-sensitive
ParseWorkspaceID(x) ==
    IF x = "bad" \/ CanonicalId(x) /= x
    THEN [ok |-> FALSE, ID |-> ""] ELSE [ok |-> TRUE, ID |-> x]

\* storageParse.StorageAccountID(x), then ID(): case-sensitive
ParseStorageAccountID(x) ==
    IF x = "bad" \/ CanonicalId(x) /= x
    THEN [ok |-> FALSE, ID |-> ""] ELSE [ok |-> TRUE, ID |-> x]

\* utils.NormalizeNilableString / d.Set of a *string: nil reads as ""
NormalizeNilableString(p) == IF p = Nil THEN "" ELSE Deref(p)

----------------------------------------------------------------------------
(* resourceMonitorSubscriptionDiagnosticSettingRead.  The result is the     *)
(* ResourceData as the handler leaves it and the error ("" is nil).         *)

ErrNone == ""

ReadProps(d1, props) ==
    LET d2 == [d1 EXCEPT !.eventhub_name = NormalizeNilableString(props.EventHubName)]
        rule == IF props.EventHubAuthorizationRuleId /= Nil
                   /\ Deref(props.EventHubAuthorizationRuleId) /= ""
                THEN ParseAuthorizationRuleIDInsensitively(
                         NormalizeNilableString(props.EventHubAuthorizationRuleId))
                ELSE [ok |-> TRUE, ID |-> ""]
        d3 == [d2 EXCEPT !.eventhub_authorization_rule_id = rule.ID]
        hasWs == props.WorkspaceId /= Nil /\ Deref(props.WorkspaceId) /= ""
        ws == IF hasWs THEN ParseWorkspaceID(Deref(props.WorkspaceId))
              ELSE [ok |-> TRUE, ID |-> ""]
        d4 == [d3 EXCEPT !.log_analytics_workspace_id = ws.ID]
        hasSa == props.StorageAccountId /= Nil /\ Deref(props.StorageAccountId) /= ""
        sa == IF hasSa THEN ParseStorageAccountID(Deref(props.StorageAccountId))
              ELSE [ok |-> TRUE, ID |-> ""]
        \* storage_account_id is set only inside the if
        d5 == IF hasSa THEN [d4 EXCEPT !.storage_account_id = sa.ID] ELSE d4
        d6 == [d5 EXCEPT !.log = SetLog(flattenMonitorSubscriptionDiagnosticLogs(props.Logs))]
    IN  IF ~rule.ok THEN [d |-> d2, err |-> "parsing eventhub_authorization_rule_id"]
        ELSE IF ~ws.ok THEN [d |-> d3, err |-> "parsing log_analytics_workspace_id"]
        ELSE IF ~sa.ok THEN [d |-> d4, err |-> "parsing storage_account_id"]
        ELSE [d |-> d6, err |-> ErrNone]

\* a Read that keeps the ID when the service answers not found
resourceMonitorSubscriptionDiagnosticSettingRead_KeepsId(d0, store, fault) ==
    LET parsed == ParseMonitorSubscriptionDiagnosticId(d0.id)
    IN  IF ~parsed.ok THEN [d |-> d0, err |-> "parsing ID"]
        ELSE
        LET id == Deref(parsed.id)
            resp == ClientGet(store, id, fault)
            d1 == [d0 EXCEPT !.name = id.Name, !.target_subscription_id = id.SubscriptionId]
        IN  IF resp.err
            THEN IF resp.notFound
                 THEN [d |-> d0, err |-> ErrNone]
                 ELSE [d |-> d0, err |-> "retrieving"]
            ELSE IF resp.Model = Nil THEN [d |-> d1, err |-> ErrNone]
            ELSE IF Deref(resp.Model).Properties = Nil THEN [d |-> d1, err |-> ErrNone]
            ELSE ReadProps(d1, Deref(Deref(resp.Model).Properties))

resourceMonitorSubscriptionDiagnosticSettingRead(d0, store, fault) ==
    LET parsed == ParseMonitorSubscriptionDiagnosticId(d0.id)
    IN  IF ~parsed.ok THEN [d |-> d0, err |-> "parsing ID"]
        ELSE
        LET id == Deref(parsed.id)
            resp == ClientGet(store, id, fault)
            d1 == [d0 EXCEPT !.name = id.Name, !.target_subscription_id = id.SubscriptionId]
        IN  IF resp.err
            THEN IF resp.notFound
                 THEN [d |-> [d0 EXCEPT !.id = EmptyStr], err |-> ErrNone]
                 ELSE [d |-> d0, err |-> "retrieving"]
            ELSE IF resp.Model = Nil THEN [d |-> d1, err |-> ErrNone]
            ELSE IF Deref(resp.Model).Properties = Nil THEN [d |-> d1, err |-> ErrNone]
            ELSE ReadProps(d1, Deref(Deref(resp.Model).Properties))

\* what the Get of Read (line 216) returned
ReadSeen(d0, store, fault) ==
    LET parsed == ParseMonitorSubscriptionDiagnosticId(d0.id)
    IN  IF ~parsed.ok THEN "uncalled"
        ELSE GetSeen(ClientGet(store, Deref(parsed.id), fault))

----------------------------------------------------------------------------
(* resourceMonitorSubscriptionDiagnosticSettingCreateUpdate.  f1, fcu, f2   *)
(* and f3 are the faults of the existence check, of CreateOrUpdate, of the  *)
(* read-back Get and of the Get of the closing Read.  The result holds the  *)
(* ResourceData, the service's store, the error, the parameters of the      *)
(* CreateOrUpdate call the handler issued (a set: empty when it issued      *)
(* none) and what the existence check saw.                                  *)

AnyEnabled(logs) == \E i \in 1..Len(logs) : logs[i].Enabled

\* BuildParameters without lines 178-182: the storage account is never sent
BuildParameters_DropsStorage(d0, logs) ==
    [Id |-> Nil,
     Properties |-> Ptr(
       [Logs |-> Ptr(logs),
        EventHubAuthorizationRuleId |->
            IF d0.eventhub_authorization_rule_id /= ""
            THEN Ptr(d0.eventhub_authorization_rule_id) ELSE Nil,
        EventHubName |->
            IF d0.eventhub_authorization_rule_id /= "" THEN Ptr(d0.eventhub_name) ELSE Nil,
        WorkspaceId |->
            IF d0.log_analytics_workspace_id /= ""
            THEN Ptr(d0.log_analytics_workspace_id) ELSE Nil,
        StorageAccountId |-> Nil])]

\* lines 157-182: the record built from the configuration
BuildParameters(d0, logs) ==
    LET eventHubAuthorizationRuleId == d0.eventhub_authorization_rule_id
        eventHubName == d0.eventhub_name
        workspaceId == d0.log_analytics_workspace_id
        storageAccountId == d0.storage_account_id
    IN  [Id |-> Nil,
         Properties |-> Ptr(
           [Logs |-> Ptr(logs),
            EventHubAuthorizationRuleId |->
                IF eventHubAuthorizationRuleId /= "" THEN Ptr(eventHubAuthorizationRuleId) ELSE Nil,
            EventHubName |->
                IF eventHubAuthorizationRuleId /= "" THEN Ptr(eventHubName) ELSE Nil,
            WorkspaceId |-> IF workspaceId /= "" THEN Ptr(workspaceId) ELSE Nil,
            StorageAccountId |-> IF storageAccountId /= "" THEN Ptr(storageAccountId) ELSE Nil])]

\* DestinationValid with eventhub_name counted as a destination
DestinationValid_CountsEventHubName(d0) ==
    \/ d0.eventhub_authorization_rule_id /= ""
    \/ d0.eventhub_name /= ""
    \/ d0.log_analytics_workspace_id /= ""
    \/ d0.storage_account_id /= ""

\* lines 163-186: valid after the three destination checks
DestinationValid(d0) ==
    \/ d0.eventhub_authorization_rule_id /= ""
    \/ d0.log_analytics_workspace_id /= ""
    \/ d0.storage_account_id /= ""

\* ExistenceCheck without lines 132-134: an existing record is not reported
ExistenceCheck_NoImportError(isNew, store, id, f1) ==
    IF ~isNew THEN ErrNone
    ELSE LET existing == ClientGet(store, id, f1)
         IN  IF existing.err /\ ~existing.notFound THEN "checking for presence"
             ELSE ErrNone

\* lines 124-135: the error of the existence check of a new resource
ExistenceCheck(isNew, store, id, f1) ==
    IF ~isNew THEN ErrNone
    ELSE LET existing == ClientGet(store, id, f1)
         IN  IF existing.err /\ ~existing.notFound THEN "checking for presence"
             ELSE IF existing.Model /= Nil
                     /\ Deref(existing.Model).Id /= Nil
                     /\ Deref(Deref(existing.Model).Id) /= EmptyStr
             THEN "import as exists"
             ELSE ErrNone

\* what the existence check saw of the service
ExistenceSeen(isNew, store, id, f1) ==
    IF ~isNew THEN "unchecked"
    ELSE LET existing == ClientGet(store, id, f1)
         IN  IF existing.err THEN (IF existing.notFound THEN "absent" ELSE "failed")
             ELSE IF existing.Model = Nil THEN "nomodel"
             ELSE IF Deref(existing.Model).Id = Nil THEN "noid"
             ELSE "found"

\* LogCheck without the loop over Enabled (lines 144-155)
LogCheck_OnlyLength(logs) ==
    IF Len(logs) = 0 THEN "At least one log block must be specified" ELSE ErrNone

\* LogCheck without the length test, valid starting out true
LogCheck_ValidWhenEmpty(logs) ==
    IF Len(logs) > 0 /\ ~AnyEnabled(logs) THEN "At least one log must be enabled" ELSE ErrNone

\* lines 137-155: the error of the checks of the log blocks
LogCheck(logs) ==
    IF Len(logs) = 0 THEN "At least one log block must be specified"
    ELSE IF ~AnyEnabled(logs) THEN "At least one log must be enabled"
    ELSE ErrNone

\* lines 188-202 with SetId moved in front of CreateOrUpdate
CreateAndRead_SetsIdFirst(d0, store, id, parameters, fcu, f2, f3) ==
    LET cu == ClientCreateOrUpdate(store, id, parameters, fcu)
        read == ClientGet(cu.store, id, f2)
        d1 == [d0 EXCEPT !.id = FormatId(d0.target_subscription_id, d0.name)]
        rd == resourceMonitorSubscriptionDiagnosticSettingRead(d1, cu.store, f3)
        sent == {[id |-> id, parameters |-> parameters]}
        out(d2, e) == [d |-> d2, store |-> cu.store, err |-> e, sent |-> sent,
                       get |-> IF cu.err THEN "uncalled" ELSE GetSeen(read)]
    IN  IF cu.err THEN out(d1, "creating")
        ELSE IF read.err THEN out(d1, "read back")
        ELSE IF read.Model = Nil THEN out(d1, "panic")
        ELSE out(rd.d, rd.err)

\* lines 188-202: CreateOrUpdate, the read-back, SetId and the closing Read
CreateAndRead(d0, store, id, parameters, fcu, f2, f3) ==
    LET cu == ClientCreateOrUpdate(store, id, parameters, fcu)
        read == ClientGet(cu.store, id, f2)
        d1 == [d0 EXCEPT !.id = FormatId(d0.target_subscription_id, d0.name)]
        rd == resourceMonitorSubscriptionDiagnosticSettingRead(d1, cu.store, f3)
        sent == {[id |-> id, parameters |-> parameters]}
        out(d2, e) == [d |-> d2, store |-> cu.store, err |-> e, sent |-> sent,
                       get |-> IF cu.err THEN "uncalled" ELSE GetSeen(read)]
    IN  IF cu.err THEN out(d0, "creating")
        ELSE IF read.err THEN out(d0, "read back")
        \* read.Model == nil && read.Model.Id == nil: a nil Model makes the
        \* second operand dereference nil, a non-nil Model makes the test false
        ELSE IF read.Model = Nil THEN out(d0, "panic")
        ELSE out(rd.d, rd.err)

resourceMonitorSubscriptionDiagnosticSettingCreateUpdate(isNew, d0, store, f1, fcu, f2, f3) ==
    LET name == d0.name
        subscriptionID == d0.target_subscription_id
        subscriptionDiagnosticSettingId == NewDiagnosticSettingID(subscriptionID, name)
        existsErr == ExistenceCheck(isNew, store, subscriptionDiagnosticSettingId, f1)
        logsRaw == SetList(d0.log)
        logs == expandSubscriptionMonitorDiagnosticsSettingsLogs(logsRaw)
        logErr == LogCheck(logs)
        parameters == BuildParameters(d0, logs)
        stop(e) == [d |-> d0, store |-> store, err |-> e, sent |-> {}, get |-> "uncalled"]
        r == IF existsErr /= ErrNone THEN stop(existsErr)
             ELSE IF logErr /= ErrNone THEN stop(logErr)
             ELSE IF ~DestinationValid(d0) THEN stop("a destination must be set")
             ELSE CreateAndRead(d0, store, subscriptionDiagnosticSettingId, parameters, fcu, f2, f3)
    IN  [d |-> r.d, store |-> r.store, err |-> r.err, sent |-> r.sent, get |-> r.get,
         existing |-> ExistenceSeen(isNew, store, subscriptionDiagnosticSettingId, f1)]

----------------------------------------------------------------------------
(* resourceMonitorSubscriptionDiagnosticSettingDelete: the call to          *)
(* client.Delete, then StateChangeConf.WaitForStateContext polling          *)
(* monitorSubscriptionDiagnosticSettingDeletedRefreshFunc.                  *)

\* StateChangeConf.MinTimeout, in seconds: the interval between two polls
MinTimeoutSeconds == 15

\* a Delete timeout of one minute
DeleteTimeoutSeconds_OneMinute == 4 * MinTimeoutSeconds

\* Timeouts.Delete, in seconds
DeleteTimeoutSeconds == 3600

ContinuousTargetOccurence == 5

Pending == {"Exists"}

Target == {"NotFound"}

\* StateChangeConf.NotFoundChecks, the library's default
NotFoundChecks == 20

\* the polls that fit into the timeout
TimeoutPolls == DeleteTimeoutSeconds \div MinTimeoutSeconds

\* a refresh function that takes a failed Get for a record that is still there
monitorSubscriptionDiagnosticSettingDeletedRefreshFunc_ErrorAsExists(res) ==
    IF res.err /\ res.notFound
    THEN [resNil |-> FALSE, state |-> "NotFound", err |-> FALSE]
    ELSE [resNil |-> FALSE, state |-> "Exists", err |-> FALSE]

\* a refresh function that names a record that is still there "NotFound"
monitorSubscriptionDiagnosticSettingDeletedRefreshFunc_ExistsAsNotFound(res) ==
    IF res.err /\ ~res.notFound
    THEN [resNil |-> TRUE, state |-> "", err |-> TRUE]
    ELSE [resNil |-> FALSE, state |-> "NotFound", err |-> FALSE]

\* the StateRefreshFunc: [resNil, state, err] from the answer of client.Get
monitorSubscriptionDiagnosticSettingDeletedRefreshFunc(res) ==
    IF res.err
    THEN IF res.notFound
         THEN [resNil |-> FALSE, state |-> "NotFound", err |-> FALSE]
         ELSE [resNil |-> TRUE, state |-> "", err |-> TRUE]
    ELSE [resNil |-> FALSE, state |-> "Exists", err |-> FALSE]

\* what a poll saw of the service, before the refresh function names it
Observation(res) ==
    IF res.err THEN (IF res.notFound THEN "NotFound" ELSE "Error") ELSE "Exists"

WaitIdle ==
    [pc |-> "idle", id |-> Nil, targetOccurence |-> 0, notfoundTick |-> 0,
     elapsed |-> 0, obs |-> "none", nfRun |-> 0, reset |-> FALSE, sawExists |-> FALSE]

\* a Delete that fails on every error of client.Delete, not found included
DeleteCall_NotTolerant(d0, store, fault) ==
    LET parsed == ParseMonitorSubscriptionDiagnosticId(d0.id)
    IN  IF ~parsed.ok
        THEN [err |-> "parsing ID", store |-> store, id |-> Nil, deleted |-> "uncalled"]
        ELSE LET resp == ClientDelete(store, Deref(parsed.id), fault)
                 answer == IF ~resp.err THEN "deleted"
                           ELSE IF resp.notFound THEN "absent" ELSE "failed"
             IN  IF resp.err
                 THEN [err |-> "deleting", store |-> resp.store, id |-> parsed.id,
                       deleted |-> answer]
                 ELSE [err |-> ErrNone, store |-> resp.store, id |-> parsed.id,
                       deleted |-> answer]

\* lines 280-290 of Delete: the error of the part before the wait, the store,
\* and what client.Delete answered
DeleteCall(d0, store, fault) ==
    LET parsed == ParseMonitorSubscriptionDiagnosticId(d0.id)
    IN  IF ~parsed.ok
        THEN [err |-> "parsing ID", store |-> store, id |-> Nil, deleted |-> "uncalled"]
        ELSE LET resp == ClientDelete(store, Deref(parsed.id), fault)
                 answer == IF ~resp.err THEN "deleted"
                           ELSE IF resp.notFound THEN "absent" ELSE "failed"
             IN  IF resp.err /\ ~resp.notFound
                 THEN [err |-> "deleting", store |-> resp.store, id |-> parsed.id,
                       deleted |-> answer]
                 ELSE [err |-> ErrNone, store |-> resp.store, id |-> parsed.id,
                       deleted |-> answer]

\* one iteration of the loop of WaitForStateContext on the refresh result r:
\* the wait's next state, with pc "waiting", "done" (target reached) or "failed"
WaitForStateStep(w, r) ==
    IF r.err THEN [w EXCEPT !.pc = "failed"]
    ELSE IF r.resNil
    THEN IF Target = {}
         THEN [w EXCEPT !.targetOccurence = @ + 1,
                        !.pc = IF w.targetOccurence + 1 = ContinuousTargetOccurence
                               THEN "done" ELSE "waiting"]
         ELSE [w EXCEPT !.notfoundTick = @ + 1,
                        !.pc = IF w.notfoundTick + 1 > NotFoundChecks
                               THEN "failed" ELSE "waiting"]
    ELSE IF r.state \in Target
    THEN [w EXCEPT !.notfoundTick = 0, !.targetOccurence = @ + 1,
                   !.pc = IF w.targetOccurence + 1 = ContinuousTargetOccurence
                          THEN "done" ELSE "waiting"]
    ELSE IF r.state \in Pending
    THEN [w EXCEPT !.notfoundTick = 0, !.targetOccurence = 0]
    ELSE [w EXCEPT !.notfoundTick = 0,
                   !.pc = IF Pending /= {} THEN "failed" ELSE "waiting"]

----------------------------------------------------------------------------
(* State of the resource lifecycle *)

\* a ResourceData with nothing set
BlankData ==
    [id |-> EmptyStr, name |-> EmptyStr, target_subscription_id |-> EmptyStr,
     eventhub_name |-> "", eventhub_authorization_rule_id |-> "",
     log_analytics_workspace_id |-> "", storage_account_id |-> "", log |-> {}]

\* the ResourceData a handler receives for configuration c: d.Get reads c
Planned(c, id) ==
    [id |-> id, name |-> c.name, target_subscription_id |-> c.target_subscription_id,
     eventhub_name |-> c.eventhub_name,
     eventhub_authorization_rule_id |-> c.eventhub_authorization_rule_id,
     log_analytics_workspace_id |-> c.log_analytics_workspace_id,
     storage_account_id |-> c.storage_account_id, log |-> c.log]

NoConfig ==
    [name |-> EmptyStr, target_subscription_id |-> EmptyStr, eventhub_name |-> "",
     eventhub_authorization_rule_id |-> "", log_analytics_workspace_id |-> "",
     storage_account_id |-> "", log |-> {}]

NoCall ==
    [op |-> "none", done |-> TRUE, err |-> ErrNone, sent |-> {}, existing |-> "unchecked",
     get |-> "uncalled", deleted |-> "uncalled"]

WlIdle == [pc |-> "idle"]

\* no pure function has been called
PureIdle == [fn |-> "none"]

Handling == wait.pc = "waiting"

\* Create: resourceMonitorSubscriptionDiagnosticSettingCreateUpdate on a new
\* resource (d.IsNewResource(), no ID yet) with configuration c
Create(c) ==
    /\ ~Handling
    /\ \E r \in {resourceMonitorSubscriptionDiagnosticSettingCreateUpdate(
                    TRUE, Planned(c, EmptyStr), remote, p.f1, p.fcu, p.f2, p.f3) : p \in FaultPlans} :
           /\ remote' = r.store
           /\ d' = r.d
           /\ last' = [op |-> "Create", done |-> TRUE, err |-> r.err, sent |-> r.sent,
                      existing |-> r.existing, get |-> r.get, deleted |-> "uncalled"]
           /\ fresh' = (r.err = ErrNone)
    /\ cfg' = c
    /\ wait' = WaitIdle
    /\ UNCHANGED <<wl, pure>>

\* the attributes the schema marks ForceNew stay as they are in an Update
UpdateOf(c) ==
    /\ c.name = d.name
    /\ c.target_subscription_id = d.target_subscription_id
    /\ c.eventhub_name = d.eventhub_name
    /\ c.eventhub_authorization_rule_id = d.eventhub_authorization_rule_id
    /\ c.storage_account_id = d.storage_account_id

\* Update: the same handler on an existing resource
Update(c) ==
    /\ ~Handling
    /\ d.id /= EmptyStr
    /\ UpdateOf(c)
    /\ \E r \in {resourceMonitorSubscriptionDiagnosticSettingCreateUpdate(
                    FALSE, Planned(c, d.id), remote, p.f1, p.fcu, p.f2, p.f3) : p \in UpdateFaultPlans} :
           /\ remote' = r.store
           /\ d' = r.d
           /\ last' = [op |-> "Update", done |-> TRUE, err |-> r.err, sent |-> r.sent,
                      existing |-> r.existing, get |-> r.get, deleted |-> "uncalled"]
    /\ cfg' = c
    /\ fresh' = FALSE
    /\ wait' = WaitIdle
    /\ UNCHANGED <<wl, pure>>

\* Read: a refresh (or the import step) of a resource that has an ID
Read(f) ==
    /\ ~Handling
    /\ d.id /= EmptyStr
    /\ LET r == resourceMonitorSubscriptionDiagnosticSettingRead(d, remote, f)
       IN  /\ d' = r.d
           /\ last' = [op |-> "Read", done |-> TRUE, err |-> r.err, sent |-> {},
                      existing |-> "unchecked", get |-> ReadSeen(d, remote, f),
                      deleted |-> "uncalled"]
           /\ fresh' = (fresh /\ r.err = ErrNone)
    /\ wait' = WaitIdle
    /\ UNCHANGED <<remote, cfg, wl, pure>>

\* Delete up to the wait: lines 275-301
DeleteBegin(f) ==
    /\ ~Handling
    /\ d.id /= EmptyStr
    /\ LET r == DeleteCall(d, remote, f)
       IN  /\ remote' = r.store
           /\ last' = [op |-> "Delete", done |-> r.err /= ErrNone, err |-> r.err, sent |-> {},
                      existing |-> "unchecked", get |-> "uncalled", deleted |-> r.deleted]
           /\ wait' = IF r.err /= ErrNone THEN WaitIdle
                      ELSE [WaitIdle EXCEPT !.pc = "waiting", !.id = r.id]
    /\ fresh' = FALSE
    /\ UNCHANGED <<d, cfg, wl, pure>>

\* one refresh of the wait (lines 303, 310-322) and the loop's bookkeeping
DeletePoll(f) ==
    /\ wait.pc = "waiting"
    /\ wait.elapsed < TimeoutPolls
    /\ LET res == ClientGet(remote, Deref(wait.id), f)
           seen == Observation(res)
           w1 == [wait EXCEPT !.elapsed = @ + 1, !.obs = seen,
                              !.nfRun = IF seen = "NotFound" THEN @ + 1 ELSE 0,
                              !.reset = @ \/ (seen = "Exists" /\ wait.nfRun > 0),
                              !.sawExists = @ \/ seen = "Exists"]
           w2 == WaitForStateStep(w1, monitorSubscriptionDiagnosticSettingDeletedRefreshFunc(res))
       IN  /\ wait' = w2
           /\ last' = [last EXCEPT !.done = w2.pc /= "waiting",
                                   !.err = IF w2.pc = "failed" THEN "waiting" ELSE ErrNone]
    /\ UNCHANGED <<remote, d, cfg, fresh, wl, pure>>

\* the Timeout of the StateChangeConf elapses: WaitForStateContext gives up
DeleteTimeout ==
    /\ wait.pc = "waiting"
    /\ wait.elapsed >= TimeoutPolls
    /\ wait' = [wait EXCEPT !.pc = "timeout"]
    /\ last' = [last EXCEPT !.done = TRUE, !.err = "waiting"]
    /\ UNCHANGED <<remote, d, cfg, fresh, wl, pure>>

Init ==
    /\ remote = [k \in Keys |-> Nil]
    /\ d = BlankData
    /\ cfg = NoConfig
    /\ last = NoCall
    /\ fresh = FALSE
    /\ wait = WaitIdle
    /\ wl = WlIdle
    /\ pure = PureIdle

\* the lifecycle over the configurations CS.  The store changes only by the
\* handlers here, so the wait of a Delete ends within a few polls and
\* DeleteTimeout is never enabled; NextDelete below has it.
LifecycleNext(CS) ==
    \/ \E c \in CS : Create(c)
    \/ \E c \in CS : Update(c)
    \/ \E f \in GetFaults : Read(f)
    \/ \E f \in CallFaults : DeleteBegin(f)
    \/ \E f \in GetFaults : DeletePoll(f)

Next == LifecycleNext(LogConfigs)

Spec == Init /\ [][Next]_vars

NextDestinations == LifecycleNext(DestinationConfigs)

SpecDestinations == Init /\ [][NextDestinations]_vars

----------------------------------------------------------------------------
(* Delete on its own, against a service whose answers change while the      *)
(* wait polls: the API is eventually consistent and other clients write to  *)
(* it, so a record can still be reported, or be reported again, after the   *)
(* Delete call.                                                             *)

\* a record another client stored under id
ExternalRecord(id) ==
    [Id |-> Ptr(ArmId(id)),
     Properties |-> Ptr(
       [Logs |-> Ptr(<<[Category |-> Ptr("Security"), CategoryGroup |-> Nil, Enabled |-> TRUE]>>),
        EventHubAuthorizationRuleId |-> Ptr("RULE"),
        EventHubName |-> Ptr("hub"),
        WorkspaceId |-> Nil,
        StorageAccountId |-> Nil])]

\* the service reports the record (again)
ExternalPut ==
    /\ wait.pc = "waiting"
    /\ \E id \in Keys :
          /\ remote[id] = Nil
          /\ remote' = [remote EXCEPT ![id] = Ptr(ExternalRecord(id))]
    /\ UNCHANGED <<d, cfg, last, fresh, wait, wl, pure>>

\* the service stops reporting the record
ExternalRemove ==
    /\ wait.pc = "waiting"
    /\ \E id \in Keys :
          /\ remote[id] /= Nil
          /\ remote' = [remote EXCEPT ![id] = Nil]
    /\ UNCHANGED <<d, cfg, last, fresh, wait, wl, pure>>

\* the IDs Delete is called with: well-formed ones, one with no separator
\* and one with two
DeleteIds ==
    {FormatId(id.SubscriptionId, id.Name) : id \in Keys}
    \cup {<<"s">>, <<"s", Pipe, "n", Pipe, "n">>}

InitDelete ==
    /\ remote \in [Keys -> {Nil} \cup {Ptr(ExternalRecord(id)) : id \in Keys}]
    /\ \A id \in Keys : remote[id] \in {Nil, Ptr(ExternalRecord(id))}
    /\ d \in {[BlankData EXCEPT !.id = i] : i \in DeleteIds}
    /\ cfg = NoConfig
    /\ last = NoCall
    /\ fresh = FALSE
    /\ wait = WaitIdle
    /\ wl = WlIdle
    /\ pure = PureIdle

NextDelete ==
    \/ \E f \in CallFaults : DeleteBegin(f)
    \/ \E f \in GetFaults : DeletePoll(f)
    \/ DeleteTimeout
    \/ ExternalPut
    \/ ExternalRemove

SpecDelete == InitDelete /\ [][NextDelete]_vars

\* the goroutine of WaitForStateContext keeps polling and its timer fires
FairSpecDelete ==
    /\ SpecDelete
    /\ WF_vars(\E f \in GetFaults : DeletePoll(f))
    /\ WF_vars(DeleteTimeout)

----------------------------------------------------------------------------
(* The lifecycle over subscription ids with and without the separator of    *)
(* the resource ID: the schema puts no ValidateFunc on                      *)
(* target_subscription_id.                                                  *)

IdSubs == Subs \cup {<<"s", Pipe, "x">>}

IdNames == Names \cup {<<"m">>}

IdKeys == [SubscriptionId : IdSubs, Name : IdNames]

IdConfigs ==
    [name : IdNames, target_subscription_id : IdSubs,
     eventhub_name : {""}, eventhub_authorization_rule_id : {""},
     log_analytics_workspace_id : {"ws"}, storage_account_id : {""},
     log : {{[category |-> "Security", category_group |-> "", enabled |-> TRUE]}}]

InitIds ==
    /\ remote = [k \in IdKeys |-> Nil]
    /\ d = BlankData
    /\ cfg = NoConfig
    /\ last = NoCall
    /\ fresh = FALSE
    /\ wait = WaitIdle
    /\ wl = WlIdle
    /\ pure = PureIdle

NextIds == LifecycleNext(IdConfigs)

SpecIds == InitIds /\ [][NextIds]_vars

----------------------------------------------------------------------------
(* ParseMonitorSubscriptionDiagnosticId on its own: a call on every string  *)
(* over a small alphabet up to a length.                                    *)

\* the longest ID the parser is called with
MaxIdLen == 4

IdChars == {"s", "n", Pipe}

\* the strings over IdChars of length n
Strings(n) == [1..n -> IdChars]

IdInputs == UNION {Strings(n) : n \in 0..MaxIdLen}

\* the call of the parser on the drawn input
ParseId ==
    /\ pure.fn = "input"
    /\ pure' = [fn |-> "ParseMonitorSubscriptionDiagnosticId", in |-> pure.in,
                out |-> ParseMonitorSubscriptionDiagnosticId(pure.in)]
    /\ UNCHANGED <<remote, d, cfg, last, fresh, wait, wl>>

InitParse ==
    /\ remote = [k \in Keys |-> Nil]
    /\ d = BlankData
    /\ cfg = NoConfig
    /\ last = NoCall
    /\ fresh = FALSE
    /\ wait = WaitIdle
    /\ wl = WlIdle
    /\ pure \in {[fn |-> "input", in |-> i] : i \in IdInputs}

NextParse == ParseId

SpecParse == InitParse /\ [][NextParse]_vars

----------------------------------------------------------------------------
(* expandSubscriptionMonitorDiagnosticsSettingsLogs and                     *)
(* flattenMonitorSubscriptionDiagnosticLogs on their own: a call on every   *)
(* list of log blocks up to a length.                                       *)

\* the longest list of log blocks
MaxLogs == 2

LogLists == UNION {[1..n -> LogBlocks] : n \in 0..MaxLogs}

\* expand on the drawn list
Expand ==
    /\ pure.fn = "input"
    /\ pure' = [fn |-> "expand", in |-> pure.in,
                out |-> expandSubscriptionMonitorDiagnosticsSettingsLogs(pure.in)]
    /\ UNCHANGED <<remote, d, cfg, last, fresh, wait, wl>>

\* flatten on the result of expand on the drawn list
FlattenExpanded ==
    /\ pure.fn = "input"
    /\ pure' = [fn |-> "flatten", in |-> pure.in,
                out |-> flattenMonitorSubscriptionDiagnosticLogs(
                            Ptr(expandSubscriptionMonitorDiagnosticsSettingsLogs(pure.in)))]
    /\ UNCHANGED <<remote, d, cfg, last, fresh, wait, wl>>

\* flatten on nil
FlattenNil ==
    /\ pure.fn = "input"
    /\ pure.in = <<>>
    /\ pure' = [fn |-> "flattenNil", in |-> pure.in,
                out |-> flattenMonitorSubscriptionDiagnosticLogs(Nil)]
    /\ UNCHANGED <<remote, d, cfg, last, fresh, wait, wl>>

InitLogs ==
    /\ remote = [k \in Keys |-> Nil]
    /\ d = BlankData
    /\ cfg = NoConfig
    /\ last = NoCall
    /\ fresh = FALSE
    /\ wait = WaitIdle
    /\ wl = WlIdle
    /\ pure \in {[fn |-> "input", in |-> l] : l \in LogLists}

NextLogs ==
    \/ Expand
    \/ FlattenExpanded
    \/ FlattenNil

SpecLogs == InitLogs /\ [][NextLogs]_vars

----------------------------------------------------------------------------
(* Read of a record that changes out of band: the service owns the record,  *)
(* the state Read starts from is whatever an earlier Read or Create left.   *)

\* the records the service may hold under id
ReadRecords(id) ==
    {[Id |-> Ptr(ArmId(id)),
      Properties |-> Ptr(
        [Logs |-> Ptr(<<[Category |-> Ptr("Security"), CategoryGroup |-> Nil, Enabled |-> TRUE]>>),
         EventHubAuthorizationRuleId |-> rule,
         EventHubName |-> IF rule = Nil THEN Nil ELSE Ptr("hub"),
         WorkspaceId |-> ws,
         StorageAccountId |-> sa])] :
       rule \in {Nil, Ptr("rule"), Ptr("RULE")},
       ws \in {Nil, Ptr(""), Ptr("ws")},
       sa \in {Nil, Ptr("sa"), Ptr("bad")}}

\* the states a Read starts from: the ID of a key and any destinations
ReadStates ==
    {[BlankData EXCEPT !.id = FormatId(id.SubscriptionId, id.Name),
                       !.name = id.Name,
                       !.target_subscription_id = id.SubscriptionId,
                       !.eventhub_authorization_rule_id = rule,
                       !.log_analytics_workspace_id = ws,
                       !.storage_account_id = sa] :
       id \in Keys, rule \in EventHubRuleIds, ws \in WorkspaceIds, sa \in StorageAccountIds}

\* the record is created, changed or removed out of band
ExternalSet ==
    /\ ~Handling
    /\ \E id \in Keys : \E rec \in {Nil} \cup {Ptr(r) : r \in ReadRecords(id)} :
          /\ rec /= remote[id]
          /\ remote' = [remote EXCEPT ![id] = rec]
    /\ last' = NoCall
    /\ fresh' = FALSE
    /\ UNCHANGED <<d, cfg, wait, wl, pure>>

InitRead ==
    /\ remote \in [Keys -> {Nil} \cup UNION {{Ptr(r) : r \in ReadRecords(id)} : id \in Keys}]
    /\ \A id \in Keys : remote[id] \in {Nil} \cup {Ptr(r) : r \in ReadRecords(id)}
    /\ d \in ReadStates
    /\ cfg = NoConfig
    /\ last = NoCall
    /\ fresh = FALSE
    /\ wait = WaitIdle
    /\ wl = WlIdle
    /\ pure = PureIdle

NextRead ==
    \/ \E f \in GetFaults : Read(f)
    \/ ExternalSet

SpecRead == InitRead /\ [][NextRead]_vars

----------------------------------------------------------------------------
(* WatchlistsClient: CreateOrUpdate, Delete, Get and List.  A string        *)
(* parameter is modelled by its length, which is all the validation reads.  *)

WatchlistOps == {"CreateOrUpdate", "Delete", "Get", "List"}

\* the longest resource group and workspace name the validation accepts
MaxNameLength == 90

MinNameLength == 1

\* lengths on both sides of each limit
NameLengths == {0, MinNameLength, MaxNameLength, MaxNameLength + 1}

SubscriptionIDLengths == {0, 36}

\* watchlist.WatchlistProperties: nil, complete, or lacking DisplayName
WatchlistBodies == {"nil", "complete", "noDisplayName"}

\* the next pages List follows at most
MaxPages == 2

\* validation.Validate on one constraint
ConstraintHolds(c, value) ==
    CASE c.Name = "MinLength" -> value >= c.Rule
      [] c.Name = "MaxLength" -> value <= c.Rule
      [] c.Name = "WatchlistProperties" -> value /= "noDisplayName"

\* the validations without the MaxLength constraint of workspaceName
WatchlistValidations_NoWorkspaceMax(op, a) ==
    << <<a.subscriptionID, <<[Name |-> "MinLength", Rule |-> 1]>> >>,
       <<a.resourceGroupName, <<[Name |-> "MaxLength", Rule |-> MaxNameLength],
                                [Name |-> "MinLength", Rule |-> MinNameLength]>> >>,
       <<a.workspaceName, <<[Name |-> "MinLength", Rule |-> MinNameLength]>> >> >>
    \o (IF op = "CreateOrUpdate"
        THEN << <<a.watchlist, <<[Name |-> "WatchlistProperties", Rule |-> 0]>> >> >>
        ELSE << >>)

\* the []validation.Validation of the operation: <<value, constraints>>
WatchlistValidations(op, a) ==
    << <<a.subscriptionID, <<[Name |-> "MinLength", Rule |-> 1]>> >>,
       <<a.resourceGroupName, <<[Name |-> "MaxLength", Rule |-> MaxNameLength],
                                [Name |-> "MinLength", Rule |-> MinNameLength]>> >>,
       <<a.workspaceName, <<[Name |-> "MaxLength", Rule |-> MaxNameLength],
                            [Name |-> "MinLength", Rule |-> MinNameLength]>> >> >>
    \o (IF op = "CreateOrUpdate"
        THEN << <<a.watchlist, <<[Name |-> "WatchlistProperties", Rule |-> 0]>> >> >>
        ELSE << >>)

\* validation.Validate(...) == nil
Validate(vs) ==
    \A i \in 1..Len(vs) : \A j \in 1..Len(vs[i][2]) : ConstraintHolds(vs[i][2][j], vs[i][1])

WatchlistArgs ==
    [subscriptionID : SubscriptionIDLengths, resourceGroupName : NameLengths,
     workspaceName : NameLengths, watchlist : WatchlistBodies]

\* the arguments an operation reads: only CreateOrUpdate has a watchlist
ArgsOf(op) == {a \in WatchlistArgs : op /= "CreateOrUpdate" => a.watchlist = "nil"}

\* the operation is called and validates its parameters
WlValidate(op, a) ==
    /\ wl.pc \in {"idle", "done"}
    /\ wl' = [pc |-> IF Validate(WatchlistValidations(op, a)) THEN "validated" ELSE "done",
              op |-> op, args |-> a, steps |-> <<"validate">>,
              err |-> IF Validate(WatchlistValidations(op, a)) THEN ErrNone ELSE "validation",
              pages |-> 0]
    /\ UNCHANGED <<remote, d, cfg, last, fresh, wait, pure>>

\* <Op>Preparer
WlPrepare(ok) ==
    /\ wl.pc = "validated"
    /\ wl' = [wl EXCEPT !.pc = IF ok THEN "prepared" ELSE "done",
                        !.steps = Append(@, "build"),
                        !.err = IF ok THEN ErrNone ELSE "Failure preparing request"]
    /\ UNCHANGED <<remote, d, cfg, last, fresh, wait, pure>>

\* <Op>Sender
WlSend(ok) ==
    /\ wl.pc = "prepared"
    /\ wl' = [wl EXCEPT !.pc = IF ok THEN "sent" ELSE "done",
                        !.steps = Append(@, "send"),
                        !.err = IF ok THEN ErrNone ELSE "Failure sending request"]
    /\ UNCHANGED <<remote, d, cfg, last, fresh, wait, pure>>

\* <Op>Responder; more is TRUE when a List page is empty and has a next link
WlRespond(ok, more) ==
    /\ wl.pc = "sent"
    /\ wl' = [wl EXCEPT !.pc = IF ok /\ more /\ wl.op = "List" /\ wl.pages < MaxPages
                               THEN "validated" ELSE "done",
                        !.steps = Append(@, "decode"),
                        !.pages = IF ok /\ more /\ wl.op = "List" /\ wl.pages < MaxPages
                                  THEN @ + 1 ELSE @,
                        !.err = IF ok THEN ErrNone ELSE "Failure responding to request"]
    /\ UNCHANGED <<remote, d, cfg, last, fresh, wait, pure>>

NextWatchlists ==
    \/ \E op \in WatchlistOps : \E a \in ArgsOf(op) : WlValidate(op, a)
    \/ \E ok \in BOOLEAN : WlPrepare(ok)
    \/ \E ok \in BOOLEAN : WlSend(ok)
    \/ \E ok \in BOOLEAN, more \in BOOLEAN : WlRespond(ok, more)

SpecWatchlists == Init /\ [][NextWatchlists]_vars

----------------------------------------------------------------------------
(* Properties of Create/Update *)

\* the key a configuration names
KeyOf(c) == NewDiagnosticSettingID(c.target_subscription_id, c.name)

\* the log rules of a sent record
SentLogs(call) == Deref(Deref(call.parameters.Properties).Logs)

CreateOrUpdateRan == last.op \in {"Create", "Update"}

\* no log block of the set is enabled (the empty set included)
NoneEnabled(logset) == \A b \in logset : ~b.enabled

\* C1: in every state reached by Create, Update, Read and Delete, each record
\* the last handler sent through CreateOrUpdate holds at least one log rule
\* and at least one enabled log rule.
C1_SentRecordHasEnabledLog ==
    \A call \in last.sent :
        /\ Len(SentLogs(call)) >= 1
        /\ \E i \in 1..Len(SentLogs(call)) : SentLogs(call)[i].Enabled

\* an Update that follows other operations sent a record with a disabled rule
\* next to an enabled one
C1_Witness ==
    /\ last.op = "Update"
    /\ \E call \in last.sent :
          /\ \E i \in 1..Len(SentLogs(call)) : ~SentLogs(call)[i].Enabled
          /\ \E i \in 1..Len(SentLogs(call)) : SentLogs(call)[i].Enabled


\* the destination fields a sent record populates
Populated(call) ==
    LET props == Deref(call.parameters.Properties)
    IN  (IF props.EventHubAuthorizationRuleId /= Nil THEN {"eventhub"} ELSE {})
        \cup (IF props.WorkspaceId /= Nil THEN {"workspace"} ELSE {})
        \cup (IF props.StorageAccountId /= Nil THEN {"storage"} ELSE {})

\* the destinations the configuration sets to a non-empty value
Configured(c) ==
    (IF c.eventhub_authorization_rule_id /= "" THEN {"eventhub"} ELSE {})
    \cup (IF c.log_analytics_workspace_id /= "" THEN {"workspace"} ELSE {})
    \cup (IF c.storage_account_id /= "" THEN {"storage"} ELSE {})

\* C2 as stated: every record Create/Update sends has exactly one of its
\* three destination fields populated, for every accepted configuration.
C2_ExactlyOneDestination ==
    \A call \in last.sent : Cardinality(Populated(call)) = 1

\* C2 as amended: every record Create/Update sends has at least one of its
\* three destination fields populated, namely each one the configuration sets
\* to a non-empty value and no other.
C2_AtLeastOneDestination ==
    \A call \in last.sent :
        /\ Cardinality(Populated(call)) >= 1
        /\ Populated(call) = Configured(cfg)

\* a record went out with all three destinations populated
C2_Witness ==
    /\ CreateOrUpdateRan
    /\ \E call \in last.sent : Cardinality(Populated(call)) = 3

\* C3: a Create/Update called with a log set that is empty or has no enabled
\* entry returns an error, issues no CreateOrUpdate call, leaves the remote
\* records as they were and leaves the resource ID as it was before the call
\* (empty for the new ResourceData of a Create).
C3_NoEnabledLogRejected ==
    [][ (last'.op \in {"Create", "Update"} /\ NoneEnabled(cfg'.log))
        => /\ last'.err /= ErrNone
           /\ last'.sent = {}
           /\ remote' = remote
           /\ d'.id = IF last'.op = "Create" THEN EmptyStr ELSE d.id ]_vars

\* an Update with only disabled log blocks was rejected while the service
\* held the record and the resource had its ID
C3_Witness ==
    /\ last.op = "Update"
    /\ cfg.log /= {}
    /\ NoneEnabled(cfg.log)
    /\ last.err = "At least one log must be enabled"
    /\ remote[KeyOf(cfg)] /= Nil
    /\ d.id /= EmptyStr

\* what every rejected Create leaves behind: no call, no change, no ID
CreateRejected(err) ==
    /\ last'.err = err
    /\ last'.sent = {}
    /\ remote' = remote
    /\ d'.id = EmptyStr

\* C4 as stated: a Create for a new resource whose key identifies a record of
\* the service returns the import-as-exists error, does not call
\* CreateOrUpdate, leaves the record unchanged and sets no resource ID.
C4_ExistingRecordIsImportError ==
    [][ (last'.op = "Create" /\ remote[KeyOf(cfg')] /= Nil)
        => CreateRejected("import as exists") ]_vars

\* C4 as amended: when the existence check of such a Create gets the record
\* (a model with a non-empty Id), Create returns the import-as-exists error;
\* when the check's Get fails with another error than not found, Create
\* returns the checking-for-presence error; in both cases it does not call
\* CreateOrUpdate, leaves the record unchanged and sets no resource ID.
C4_ExistingRecordSeenIsImportError ==
    [][ (last'.op = "Create" /\ remote[KeyOf(cfg')] /= Nil)
        => /\ last'.existing = "found" => CreateRejected("import as exists")
           /\ last'.existing = "failed" => CreateRejected("checking for presence")
           /\ last'.existing \in {"found", "failed", "nomodel", "noid"} ]_vars

\* a second Create of a key the service holds ended in import-as-exists
C4_Witness ==
    /\ last.op = "Create"
    /\ last.existing = "found"
    /\ last.err = "import as exists"
    /\ remote[KeyOf(cfg)] /= Nil
    /\ d.id = EmptyStr

\* C5: a Create/Update whose eventhub_authorization_rule_id,
\* log_analytics_workspace_id and storage_account_id are all empty returns an
\* error and issues no CreateOrUpdate call, also when eventhub_name is set.
C5_NoDestinationRejected ==
    (CreateOrUpdateRan /\ Configured(cfg) = {})
        => (last.err /= ErrNone /\ last.sent = {})

\* a configuration that sets only eventhub_name was rejected for its
\* missing destination
C5_Witness ==
    /\ CreateOrUpdateRan
    /\ cfg.eventhub_name = "hub"
    /\ Configured(cfg) = {}
    /\ last.err = "a destination must be set"

C7_CreateReadRoundTrip ==
    (fresh /\ last.op \in {"Create", "Read"} /\ last.err = ErrNone)
        => /\ d.name = cfg.name
           /\ d.target_subscription_id = cfg.target_subscription_id
           /\ d.eventhub_authorization_rule_id = cfg.eventhub_authorization_rule_id
           /\ d.log_analytics_workspace_id = cfg.log_analytics_workspace_id
           /\ d.storage_account_id = cfg.storage_account_id
           /\ d.log = cfg.log
           /\ Cardinality(d.log) = Cardinality(cfg.log)

----------------------------------------------------------------------------
(* Properties of Delete *)

\* Delete has returned success
DeleteSucceeded == last.op = "Delete" /\ last.done /\ last.err = ErrNone

\* C8: Delete returns success only after its refresh function has seen the
\* record as NotFound on 5 consecutive polls; a poll that sees "Exists"
\* leaves the wait pending with no NotFound observation counted.
C8_SuccessAfterFiveNotFound ==
    /\ DeleteSucceeded => (wait.pc = "done" /\ wait.nfRun >= 5)
    /\ wait.obs = "Exists"
         => (wait.pc \in {"waiting", "timeout"} /\ wait.targetOccurence = 0)

\* Delete succeeded although an "Exists" poll had interrupted a run of
\* NotFound polls
C8_Witness ==
    /\ DeleteSucceeded
    /\ wait.pc = "done"
    /\ wait.reset

\* C9 as stated: if from some poll on every poll reports the record as not
\* found, Delete eventually returns success.
C9_NotFoundFromSomePollSucceeds ==
    (<>[](wait.obs = "NotFound")) => <>DeleteSucceeded

\* C9 as amended: Delete always terminates; it returns success as soon as 5
\* consecutive polls report not found, which has to happen before the delete
\* timeout; it returns an error at once when a poll fails with another error;
\* otherwise it returns an error when the timeout of 60 minutes (240 polls
\* 15 seconds apart) elapses.
C9_DeleteTerminates ==
    /\ [](wait.nfRun >= 5 => (wait.pc = "done" /\ DeleteSucceeded))
    /\ [](wait.pc = "timeout"
            => (wait.elapsed >= 240 /\ wait.nfRun < 5 /\ last.err /= ErrNone))
    /\ [](wait.pc = "failed" => (wait.obs = "Error" /\ last.err /= ErrNone))
    /\ (wait.pc = "waiting") ~> (wait.pc /= "waiting" /\ last.done)

\* the timeout elapsed while the last polls reported the record as not found
C9_Witness ==
    /\ wait.pc = "timeout"
    /\ wait.obs = "NotFound"
    /\ wait.nfRun > 0

----------------------------------------------------------------------------
(* Properties of the watchlists client *)

\* the parameters fail one of the constraints on subscription ID, resource
\* group name and workspace name
NamesInvalid(a) ==
    \/ a.subscriptionID = 0
    \/ a.resourceGroupName < 1 \/ a.resourceGroupName > 90
    \/ a.workspaceName < 1 \/ a.workspaceName > 90

\* C10: each watchlist operation starts with parameter validation, builds
\* a request only after validation (or, for List, after decoding a page),
\* sends only what it built and decodes only what it sent; when validation
\* fails it returns a validation error and no request is built or sent.
C10_ValidateBuildSendDecode ==
    wl.pc /= "idle" =>
      /\ wl.steps[1] = "validate"
      /\ \A i \in 2..Len(wl.steps) :
            /\ wl.steps[i] /= "validate"
            /\ (wl.steps[i] = "build") => (wl.steps[i - 1] \in {"validate", "decode"})
            /\ (wl.steps[i] = "send") => (wl.steps[i - 1] = "build")
            /\ (wl.steps[i] = "decode") => (wl.steps[i - 1] = "send")
      /\ NamesInvalid(wl.args)
            => (wl.steps = <<"validate">> /\ wl.err = "validation" /\ wl.pc = "done")
      /\ (wl.err = "validation") => (wl.steps = <<"validate">>)

\* an operation was refused for a workspace name of 91 characters alone
C10_Witness ==
    /\ wl.pc = "done"
    /\ wl.err = "validation"
    /\ wl.steps = <<"validate">>
    /\ wl.args.workspaceName = 91
    /\ wl.args.resourceGroupName = 90
    /\ wl.args.subscriptionID = 36

----------------------------------------------------------------------------
(* Properties of Read *)

\* the properties of the record the service holds under the state's ID
RemoteProps ==
    Deref(Deref(remote[Deref(ParseMonitorSubscriptionDiagnosticId(d.id).id)]).Properties)

\* the value of a destination field of the record, "" when it has none, in
\* the casing of the canonical id
RemoteValue(field) == IF field = Nil THEN "" ELSE CanonicalId(Deref(field))

\* the last handler was a Read that got the record and returned no error
ReadMirrored == last.op = "Read" /\ last.err = ErrNone /\ last.get = "found"

\* C11: after a successful Read of an existing record each destination
\* attribute of the state equals the value of the record's field and is
\* empty when the record has no such field, whatever the state held before.
C11_StateMirrorsRemote ==
    ReadMirrored =>
        /\ d.eventhub_authorization_rule_id
              = RemoteValue(RemoteProps.EventHubAuthorizationRuleId)
        /\ d.log_analytics_workspace_id = RemoteValue(RemoteProps.WorkspaceId)
        /\ d.storage_account_id = RemoteValue(RemoteProps.StorageAccountId)

\* C12: a Read whose Get is answered not found clears the resource ID and
\* returns no error; a Read whose Get fails with another error returns an
\* error and leaves the ID and every attribute as they were.
C12_ReadNotFoundClearsId ==
    [][ last'.op = "Read"
        => /\ last'.get = "absent" => (d'.id = EmptyStr /\ last'.err = ErrNone)
           /\ last'.get = "failed" => (last'.err /= ErrNone /\ d' = d) ]_vars

\* a Read of a state with an ID found the record gone and cleared the ID
C12_Witness ==
    /\ last.op = "Read"
    /\ last.get = "absent"
    /\ last.err = ErrNone
    /\ d.id = EmptyStr
    /\ d.name /= EmptyStr

----------------------------------------------------------------------------
(* Properties of Delete's call and of the refresh function *)

\* C13: when client.Delete answers not found, Delete does not fail on it
\* and goes on to the polling wait; when client.Delete fails with another
\* error, Delete returns an error and never polls.
C13_DeleteToleratesNotFound ==
    last.op = "Delete" =>
        /\ last.deleted = "absent" => (wait.pc /= "idle" /\ last.err /= "deleting")
        /\ last.deleted = "failed"
              => (last.done /\ last.err = "deleting" /\ wait.pc = "idle" /\ wait.elapsed = 0)

\* the Delete of a record that was already gone polled and succeeded
C13_Witness ==
    /\ DeleteSucceeded
    /\ last.deleted = "absent"
    /\ wait.pc = "done"
    /\ wait.elapsed >= 5

\* the answers client.Get can give in this state
GetAnswers == {ClientGet(remote, id, f) : id \in Keys, f \in GetFaults}

\* C14: the refresh function names a not-found Get "NotFound", a successful
\* Get "Exists" and turns any other Get error into an error; a poll that
\* fails this way ends the wait at once and makes Delete return an error,
\* also after polls that observed NotFound.
C14_RefreshErrorEndsWait ==
    /\ \A res \in GetAnswers :
          LET r == monitorSubscriptionDiagnosticSettingDeletedRefreshFunc(res)
          IN  /\ (res.err /\ res.notFound) => (r.state = "NotFound" /\ ~r.err)
              /\ ~res.err => (r.state = "Exists" /\ ~r.err)
              /\ (res.err /\ ~res.notFound) => r.err
    /\ wait.obs = "Error"
          => (wait.pc = "failed" /\ last.done /\ last.err /= ErrNone)

\* a poll failed after polls that had counted NotFound observations
C14_Witness ==
    /\ wait.pc = "failed"
    /\ wait.obs = "Error"
    /\ wait.targetOccurence > 0
    /\ last.done
    /\ last.err /= ErrNone

----------------------------------------------------------------------------
(* Properties of the resource ID *)

\* the positions of the separator in a string
PipesOf(str) == {i \in 1..Len(str) : str[i] = "|"}

\* C15: ParseMonitorSubscriptionDiagnosticId succeeds exactly on the inputs
\* with one "|", and then returns what precedes the "|" as subscription id
\* and what follows it as name, so that "s|n" parses to (s, n) for every s
\* and n without "|"; an input with no or several "|" yields an error.
C15_ParseSplitsOnOnePipe ==
    pure.fn = "ParseMonitorSubscriptionDiagnosticId" =>
        /\ pure.out.ok <=> Cardinality(PipesOf(pure.in)) = 1
        /\ ~pure.out.ok => pure.out.id = {}
        /\ pure.out.ok =>
              LET at == CHOOSE i \in PipesOf(pure.in) : TRUE
                  id == CHOOSE v \in pure.out.id : TRUE
              IN  /\ id.SubscriptionId = SubSeq(pure.in, 1, at - 1)
                  /\ id.Name = SubSeq(pure.in, at + 1, Len(pure.in))
                  /\ id.SubscriptionId \o <<"|">> \o id.Name = pure.in

\* the ID "sn|n" was parsed into subscription id "sn" and name "n"
C15_Witness ==
    /\ pure.fn = "ParseMonitorSubscriptionDiagnosticId"
    /\ pure.in = <<"s", "n", "|", "n">>
    /\ pure.out.ok
    /\ pure.out.id = {[SubscriptionId |-> <<"s", "n">>, Name |-> <<"n">>]}

\* C16: the resource ID a successful Create/Update leaves in state is
\* accepted by ParseMonitorSubscriptionDiagnosticId and parses back to the
\* (target_subscription_id, name) pair of the CreateOrUpdate call, which is
\* the pair of the configuration.
C16_StoredIdParsesToSentKey ==
    (CreateOrUpdateRan /\ last.err = ErrNone) =>
        LET parsed == ParseMonitorSubscriptionDiagnosticId(d.id)
        IN  /\ parsed.ok
            /\ last.sent /= {}
            /\ \A call \in last.sent :
                  /\ parsed.id = {call.id}
                  /\ call.id = [SubscriptionId |-> cfg.target_subscription_id,
                                Name |-> cfg.name]
            /\ \A id \in parsed.id : remote[id] /= Nil

\* a Create of the key (s, m) succeeded and left the ID "s|m"
C16_Witness ==
    /\ last.op = "Create"
    /\ last.err = ErrNone
    /\ last.sent /= {}
    /\ cfg.name = <<"m">>
    /\ d.id = <<"s", "|", "m">>

\* the resource ID a Create/Update step started from: a Create works on a
\* new ResourceData
IdBefore == IF last'.op = "Create" THEN EmptyStr ELSE d.id

\* C17: when the read-back Get after CreateOrUpdate returns no model, or a
\* model without an ID, Create/Update returns the "Cannot read ID" error and
\* does not set the resource ID.
C17_ReadBackWithoutIdIsError ==
    [][ (last'.op \in {"Create", "Update"} /\ last'.get \in {"nomodel", "noid"})
        => (last'.err = "Cannot read ID" /\ d'.id = IdBefore) ]_vars

\* the errors Create/Update returns before it reaches SetId
ErrorsBeforeSetId ==
    {"checking for presence", "import as exists",
     "At least one log block must be specified", "At least one log must be enabled",
     "a destination must be set", "creating", "read back", "panic"}

\* the ID changes only when CreateOrUpdate was called and the read-back Get
\* returned without error
IdSetOnlyAfterCalls ==
    d'.id /= IdBefore => (last'.sent /= {} /\ last'.get \in {"found", "noid"})

\* C18 as stated: Create/Update sets the resource ID only after
\* CreateOrUpdate and the read-back Get have succeeded, and on every error
\* return the ID is as it was before the call.
C18_IdUnchangedOnEveryError ==
    [][ last'.op \in {"Create", "Update"}
        => /\ IdSetOnlyAfterCalls
           /\ last'.err /= ErrNone => d'.id = IdBefore ]_vars

\* C18 as amended: Create/Update sets the resource ID only after
\* CreateOrUpdate and the read-back Get have returned without error; on the
\* error returns that precede SetId (existence check, import-as-exists, log
\* and destination validation, CreateOrUpdate failure, read-back failure)
\* the ID is as it was before the call; an error of the closing Read is
\* returned with the new ID already set.
C18_IdUnchangedOnErrorBeforeSetId ==
    [][ last'.op \in {"Create", "Update"}
        => /\ IdSetOnlyAfterCalls
           /\ last'.err \in ErrorsBeforeSetId => d'.id = IdBefore
           /\ (last'.err /= ErrNone /\ last'.err \notin ErrorsBeforeSetId)
                 => d'.id = cfg'.target_subscription_id \o <<"|">> \o cfg'.name ]_vars

\* a Create returned the error of its closing Read and left the ID set
C18_Witness ==
    /\ last.op = "Create"
    /\ last.err = "retrieving"
    /\ last.get = "found"
    /\ d.id /= EmptyStr

----------------------------------------------------------------------------
(* Properties of expand and flatten *)

\* C19: expand returns one rule per input entry, in input order, with the
\* entry's enabled flag and exactly one of Category and CategoryGroup: the
\* category when it is non-empty (the category_group is dropped), otherwise
\* the category_group.
C19_ExpandOneOfCategoryOrGroup ==
    pure.fn = "expand" =>
        /\ Len(pure.out) = Len(pure.in)
        /\ \A i \in 1..Len(pure.in) :
              /\ pure.out[i].Enabled = pure.in[i].enabled
              /\ (pure.out[i].Category = {}) /= (pure.out[i].CategoryGroup = {})
              /\ pure.in[i].category /= ""
                    => /\ pure.out[i].Category = {pure.in[i].category}
                       /\ pure.out[i].CategoryGroup = {}
              /\ pure.in[i].category = ""
                    => /\ pure.out[i].Category = {}
                       /\ pure.out[i].CategoryGroup = {pure.in[i].category_group}

\* expand ran on an entry with both category and category_group, followed
\* by a disabled entry with a category_group alone
C19_Witness ==
    /\ pure.fn = "expand"
    /\ pure.in = <<[category |-> "Security", category_group |-> "allLogs", enabled |-> TRUE],
                   [category |-> "", category_group |-> "allLogs", enabled |-> FALSE]>>
    /\ Len(pure.out) = 2

\* each entry of the list has exactly one of category and category_group
OneOfEach(list) ==
    \A i \in 1..Len(list) : (list[i].category = "") /= (list[i].category_group = "")

\* C20: on a list whose entries each have exactly one of category and
\* category_group, flatten of expand returns a list of the same length and
\* order whose entries hold the same enabled flag and the same category or
\* category_group, the other key being absent; flatten of nil returns the
\* empty list.
C20_FlattenOfExpand ==
    /\ (pure.fn = "flatten" /\ OneOfEach(pure.in)) =>
          /\ Len(pure.out) = Len(pure.in)
          /\ \A i \in 1..Len(pure.in) :
                /\ pure.out[i].enabled = pure.in[i].enabled
                /\ pure.in[i].category /= ""
                      => /\ DOMAIN pure.out[i] = {"category", "enabled"}
                         /\ pure.out[i].category = pure.in[i].category
                /\ pure.in[i].category = ""
                      => /\ DOMAIN pure.out[i] = {"category_group", "enabled"}
                         /\ pure.out[i].category_group = pure.in[i].category_group
    /\ pure.fn = "flattenNil" => pure.out = <<>>

\* flatten of expand ran on a category entry followed by a category_group
\* entry
C20_Witness ==
    /\ pure.fn = "flatten"
    /\ OneOfEach(pure.in)
    /\ Len(pure.in) = 2
    /\ pure.in[1].category /= ""
    /\ pure.in[2].category_group /= ""
    /\ ~pure.in[2].enabled
    /\ Len(pure.out) = 2

====
